---- MODULE Spec2Model ----
(***************************************************************************)
(* Model of src/cargo/ops/cargo_package.rs: the `cargo package` pipeline.  *)
(*                                                                         *)
(* A path is a sequence of component names.  Absolute paths start at the   *)
(* filesystem root, so <<"repo","pkg","Cargo.toml">> is                    *)
(* /repo/pkg/Cargo.toml.  Option<T> is a sequence of length 0 (None) or 1  *)
(* (Some).  A git2::Status is the set of its flags, CURRENT being {}.      *)
(***************************************************************************)
EXTENDS Naturals, Sequences, FiniteSets, TLC

VARIABLES
    opts,            \* PackageOpts: list, check_metadata, allow_dirty, verify
    pkg,             \* the Package being published (manifest data)
    env,             \* the world package() reads: disk, git, registry, faults
    pc,              \* position of package() in its body
    src_files,       \* Vec<PathBuf> returned by src.list_files
    vcs_info,        \* Option<String> computed at lines 94-100
    ar_files,        \* Vec<ArchiveFile> returned by build_ar_list
    warnings,        \* what config.shell().warn was called with, in order
    stdout,          \* what drop_println! printed, in order
    error,           \* the error package() returned, [kind |-> "none"] if none
    ret,             \* "running", "Ok(None)", "Ok(Some)" or "Err"
    tmp_file,        \* the hidden scratch file .{name}-{version}.crate
    pub_file,        \* the file at the public name {name}-{version}.crate
    log,             \* the stages package() has started, in order
    pkg_fingerprint, \* run_verify: hash_all before the build
    ws_fingerprint,  \* run_verify: hash_all after the build
    changes,         \* the report of report_hash_difference
    cache_lock,      \* holder of the package-cache lock, 0 when it is free
    inv              \* concurrent invocations inside check_yanked

vars == <<opts, pkg, env, pc, src_files, vcs_info, ar_files, warnings, stdout,
          error, ret, tmp_file, pub_file, log, pkg_fingerprint, ws_fingerprint,
          changes, cache_lock, inv>>

(***************************************************************************)
(* Bounds of the model.                                                    *)
(***************************************************************************)
MaxFiles == 2
MaxDeps == 2
MaxResolve == 2
MaxHash == 2
NProcs == 2

(***************************************************************************)
(* Sequences.                                                              *)
(***************************************************************************)
Range(s) == {s[i] : i \in 1..Len(s)}

Last(s) == s[Len(s)]

IsPrefix(p, s) == Len(p) <= Len(s) /\ SubSeq(s, 1, Len(p)) = p

\* The sequences over S without repetition, of length at most n.
RECURSIVE DistinctSeqs(_, _)
DistinctSeqs(S, n) ==
    IF n = 0 THEN {<<>>}
    ELSE LET shorter == DistinctSeqs(S, n - 1)
         IN  shorter \cup UNION {{Append(s, x) : x \in S \ Range(s)} : s \in shorter}

(***************************************************************************)
(* Strings and paths.  Rust compares str and OsStr by bytes; ByteOrder     *)
(* lists every string the model handles in that order.                     *)
(***************************************************************************)
ByteOrder ==
    << "..", ".cargo_vcs_info.json", "<w>", "Cargo.lock", "Cargo.toml",
       "Cargo.toml.orig", "LICENSE", "a", "a:b", "b", "c", "d", "lib.rs",
       "nul", "pkg", "q?*", "repo", "x", "x-y", "x/Cargo.toml", "x/Cargo.toml.orig",
       "x/LICENSE", "x/lib.rs" >>

Rank(s) == CHOOSE i \in 1..Len(ByteOrder) : ByteOrder[i] = s

StrLess(a, b) == Rank(a) < Rank(b)

\* Ord for Path: the components compared lexicographically.
RECURSIVE PathLess(_, _)
PathLess(p, q) ==
    IF q = <<>> THEN FALSE
    ELSE IF p = <<>> THEN TRUE
    ELSE IF Head(p) = Head(q) THEN PathLess(Tail(p), Tail(q))
    ELSE StrLess(Head(p), Head(q))

\* Path::to_str of a relative path: the components joined by '/'.
RECURSIVE RelStr(_)
RelStr(p) ==
    IF Len(p) = 0 THEN ""
    ELSE IF Len(p) = 1 THEN p[1]
    ELSE p[1] \o "/" \o RelStr(Tail(p))

\* The relative paths the model handles.
PathUniverse ==
    { <<".cargo_vcs_info.json">>, <<"Cargo.lock">>, <<"Cargo.toml">>,
      <<"Cargo.toml.orig">>, <<"LICENSE">>, <<"a:b">>, <<"lib.rs">>, <<"nul">>, <<"q?*">>, <<"<w>">>,
      <<"x-y">>, <<"x", "Cargo.toml">>, <<"x", "Cargo.toml.orig">>,
      <<"x", "LICENSE">>, <<"x", "lib.rs">> }

\* PathBuf::from(&str): the path whose string form is s.
PathBufFrom(s) == CHOOSE p \in PathUniverse : RelStr(p) = s

\* Path::file_name, for a path that does not end in "..".
FileName(p) == Last(p)

\* Path::strip_prefix: Ok(rest) or Err.
StripPrefix(p, base) ==
    IF IsPrefix(base, p)
    THEN [ok |-> TRUE, path |-> SubSeq(p, Len(base) + 1, Len(p))]
    ELSE [ok |-> FALSE, path |-> <<>>]

\* paths::normalize_path: "." and ".." resolved without touching the disk.
RECURSIVE NormalizePath(_, _)
NormalizePath(done, rest) ==
    IF rest = <<>> THEN done
    ELSE IF Head(rest) = ".."
         THEN NormalizePath(IF done = <<>> THEN <<>> ELSE SubSeq(done, 1, Len(done) - 1), Tail(rest))
    ELSE NormalizePath(Append(done, Head(rest)), Tail(rest))

Root == <<"repo", "pkg">>

WorkDir == <<"repo">>

ManifestPath == Root \o <<"Cargo.toml">>

VCS_INFO_FILE == ".cargo_vcs_info.json"

NoError == [kind |-> "none"]

Ok == [ok |-> TRUE, err |-> NoError, warn |-> <<>>]

Fail(e) == [ok |-> FALSE, err |-> e, warn |-> <<>>]

(***************************************************************************)
(* check_filename (lines 829-858).                                         *)
(***************************************************************************)
\* The colon left out of the list.
bad_chars_no_colon == <<"/", "\\", "<", ">", "\"", "|", "?", "*">>

bad_chars == <<"/", "\\", "<", ">", ":", "\"", "|", "?", "*">>

\* The characters of bad_chars a modelled component name contains.
SpecialCharsOf(name) ==
    CASE name = "a:b" -> {":"}
      [] name = "q?*" -> {"?", "*"}
      [] name = "<w>" -> {"<", ">"}
      [] OTHER -> {}

\* restricted_names::is_windows_reserved_path: some component is a device name.
is_windows_reserved_path(file) == \E i \in 1..Len(file) : file[i] \in {"nul"}

check_filename(file) ==
    IF file = <<>> \/ Last(file) = ".." THEN Ok
    ELSE LET name == FileName(file)
             hits == {i \in 1..Len(bad_chars) : bad_chars[i] \in SpecialCharsOf(name)}
         IN  IF hits # {}
             THEN Fail([kind |-> "special character",
                        c |-> bad_chars[CHOOSE i \in hits : \A j \in hits : i <= j],
                        file |-> RelStr(file)])
             ELSE IF is_windows_reserved_path(file)
             THEN [Ok EXCEPT !.warn = <<[kind |-> "reserved Windows filename", file |-> RelStr(file)]>>]
             ELSE Ok

(***************************************************************************)
(* check_metadata (lines 331-368).  md maps each metadata field to TRUE    *)
(* when it is set and not empty.                                           *)
(***************************************************************************)
RECURSIVE JoinOr(_)
JoinOr(missing) ==
    IF Len(missing) = 1 THEN missing[1]
    ELSE IF Len(missing) = 2 THEN missing[1] \o " or " \o missing[2]
    ELSE missing[1] \o ", " \o JoinOr(Tail(missing))

check_metadata(md) ==
    LET missing ==
            (IF ~md.description THEN <<"description">> ELSE <<>>)
            \o (IF ~md.license /\ ~md.license_file THEN <<"license", "license-file">> ELSE <<>>)
            \o (IF ~md.documentation /\ ~md.homepage /\ ~md.repository
                THEN <<"documentation", "homepage", "repository">> ELSE <<>>)
    IN  IF missing # <<>>
        THEN <<[kind |-> "manifest has no", things |-> JoinOr(missing)]>>
        ELSE <<>>

(***************************************************************************)
(* verify_dependencies (lines 371-383).                                    *)
(***************************************************************************)
\* The test on is_transitive inverted.
UnpinnedInverted(dep) == dep.is_path /\ ~dep.specified_req /\ ~dep.is_transitive

\* Line 373.
Unpinned(dep) == dep.is_path /\ ~dep.specified_req /\ dep.is_transitive

verify_dependencies(deps) ==
    LET bad == {i \in 1..Len(deps) : Unpinned(deps[i])}
    IN  IF bad # {}
        THEN Fail([kind |-> "all path dependencies must have a version specified",
                   dependency |-> deps[CHOOSE i \in bad : \A j \in bad : i <= j].name])
        ELSE Ok

(***************************************************************************)
(* check_repo_state (lines 389-505).                                       *)
(***************************************************************************)
CURRENT == {}

IGNORED == {"IGNORED"}

\* Repository::status_file: [ok, flags]; a path the repository cannot
\* resolve (one inside a submodule, one it does not know) is an Err.
StatusFile(repo, relative) ==
    IF relative \in DOMAIN repo.status THEN repo.status[relative]
    ELSE [ok |-> FALSE, flags |-> {}]

\* open_submodules (lines 491-504): each submodule that opens, after its own.
RECURSIVE open_submodules(_)
open_submodules(submodules) ==
    IF submodules = <<>> THEN <<>>
    ELSE LET s == Head(submodules)
         IN  (IF s.opens THEN open_submodules(s.submodules) \o <<s>> ELSE <<>>)
             \o open_submodules(Tail(submodules))

\* The length of an absolute path as a string: '/' before each component.
RECURSIVE AbsStrLen(_)
AbsStrLen(p) == IF p = <<>> THEN 0 ELSE 1 + Len(Head(p)) + AbsStrLen(Tail(p))

\* Line 436: longest paths first.  The order among equal lengths is the
\* sort's choice; submodule_dirty asks `any`, which no order changes.
RECURSIVE SortSubRepos(_)
SortSubRepos(subs) ==
    IF subs = <<>> THEN <<>>
    ELSE LET rest == SortSubRepos(Tail(subs))
             e == Head(subs)
             k == Cardinality({i \in 1..Len(rest) : AbsStrLen(rest[i].workdir) >= AbsStrLen(e.workdir)})
         IN  SubSeq(rest, 1, k) \o <<e>> \o SubSeq(rest, k + 1, Len(rest))

\* Lines 437-448.
submodule_dirty(sub_repos, path) ==
    \E i \in 1..Len(sub_repos) :
        /\ IsPrefix(sub_repos[i].workdir, path)
        /\ LET relative == StripPrefix(path, sub_repos[i].workdir).path
               st == StatusFile(sub_repos[i], relative)
           IN  st.ok /\ st.flags # CURRENT

\* The exception for Cargo.lock left out.
IsDirtyLockToo(repo, sub_repos, file) ==
    LET relative == StripPrefix(file, WorkDir).path
        st == StatusFile(repo, relative)
    IN  IF st.ok THEN st.flags # CURRENT
        ELSE submodule_dirty(sub_repos, file)

\* The filter closure of lines 452-468.
IsDirty(repo, sub_repos, file) ==
    LET relative == StripPrefix(file, WorkDir).path
        st == StatusFile(repo, relative)
    IN  IF st.ok
        THEN IF st.flags = CURRENT THEN FALSE
             ELSE IF relative # <<>> /\ FileName(relative) = "Cargo.lock"
             THEN st.flags # IGNORED
             ELSE TRUE
        ELSE submodule_dirty(sub_repos, file)

\* Lines 469-474: the path as the message shows it.
DirtyDisplay(path) ==
    LET r == StripPrefix(path, Root)
    IN  IF r.ok THEN RelStr(r.path) ELSE "/" \o RelStr(path)

\* The search stops at the first dirty file.
RECURSIVE DirtyFilesFirstOnly(_, _, _)
DirtyFilesFirstOnly(repo, sub_repos, files) ==
    IF files = <<>> THEN <<>>
    ELSE IF IsDirty(repo, sub_repos, Head(files)) THEN <<DirtyDisplay(Head(files))>>
    ELSE DirtyFilesFirstOnly(repo, sub_repos, Tail(files))

RECURSIVE DirtyFiles(_, _, _)
DirtyFiles(repo, sub_repos, files) ==
    IF files = <<>> THEN <<>>
    ELSE (IF IsDirty(repo, sub_repos, Head(files)) THEN <<DirtyDisplay(Head(files))>> ELSE <<>>)
         \o DirtyFiles(repo, sub_repos, Tail(files))

\* fn git (lines 426-488): [ok, hash, err, warn].
git(repo, files) ==
    IF ~repo.submodules_ok
    THEN [ok |-> FALSE, hash |-> <<>>, err |-> [kind |-> "submodules"], warn |-> <<>>]
    ELSE LET sub_repos == SortSubRepos(open_submodules(repo.submodules))
             dirty == DirtyFiles(repo, sub_repos, files)
         IN  IF dirty = <<>>
             THEN IF repo.head = <<>>
                  THEN [ok |-> FALSE, hash |-> <<>>, err |-> [kind |-> "revparse HEAD"], warn |-> <<>>]
                  ELSE [ok |-> TRUE, hash |-> repo.head, err |-> NoError, warn |-> <<>>]
             ELSE [ok |-> FALSE, hash |-> <<>>, warn |-> <<>>,
                   err |-> [kind |-> "files in the working directory contain changes",
                            count |-> Len(dirty), files |-> dirty]]

check_repo_state(repo, files, verbose) ==
    IF repo.kind = "none"
    THEN [ok |-> TRUE, hash |-> <<>>, err |-> NoError,
          warn |-> IF verbose THEN <<[kind |-> "No (git) VCS found"]>> ELSE <<>>]
    ELSE IF repo.kind = "bare"
    THEN [ok |-> TRUE, hash |-> <<>>, err |-> NoError, warn |-> <<>>]
    ELSE LET path == StripPrefix(ManifestPath, WorkDir).path
             status == StatusFile(repo, path)
         IN  IF status.ok /\ status.flags \cap IGNORED = {}
             THEN git(repo, files)
             ELSE [ok |-> TRUE, hash |-> <<>>, err |-> NoError,
                   warn |-> IF verbose THEN <<[kind |-> "No (git) Cargo.toml found"]>> ELSE <<>>]

\* Line 97: the text of .cargo_vcs_info.json for revision h.
VcsInfoText(h) == "{\n  \"git\": {\n    \"sha1\": \"" \o h \o "\"\n  }\n}\n"

(***************************************************************************)
(* build_ar_list (lines 145-296).                                          *)
(***************************************************************************)
OnDisk(path) == [kind |-> "OnDisk", path |-> path]

GeneratedManifest(p) == [kind |-> "Manifest", pkg |-> p]

GeneratedLockfile == [kind |-> "Lockfile"]

GeneratedVcsInfo(text) == [kind |-> "VcsInfo", text |-> text]

ArchiveFile(rel_path, rel_str, contents) ==
    [rel_path |-> rel_path, rel_str |-> rel_str, contents |-> contents]

\* same_file::is_same_file: the model's disk has no links, so two paths name
\* one file exactly when they are equal.
is_same_file(a, b) == a = b

\* Lines 173-219: the entries one candidate file adds.  nested is what
\* read_manifest makes of a manifest that is not the package's own.
\* [ok, entries, err]
EntriesFor(src_file, rel_path, rel_str, nested) ==
    LET rel_filename == FileName(rel_path)
    IN  IF rel_filename = "Cargo.toml"
        THEN IF is_same_file(src_file, ManifestPath)
             THEN [ok |-> TRUE, err |-> NoError,
                   entries |-> <<ArchiveFile(PathBufFrom("Cargo.toml.orig"), "Cargo.toml.orig", OnDisk(src_file)),
                                 ArchiveFile(rel_path, rel_str, GeneratedManifest(ManifestPath))>>]
             ELSE IF nested = "Err"
             THEN [ok |-> FALSE, err |-> [kind |-> "read_manifest", file |-> rel_str], entries |-> <<>>]
             ELSE IF nested = "Real"
             THEN LET orig_path_str == rel_str \o ".orig"
                  IN  [ok |-> TRUE, err |-> NoError,
                       entries |-> <<ArchiveFile(PathBufFrom(orig_path_str), orig_path_str, OnDisk(src_file)),
                                     ArchiveFile(rel_path, rel_str, GeneratedManifest(src_file))>>]
             ELSE [ok |-> TRUE, err |-> NoError, entries |-> <<>>]
        ELSE IF rel_filename = "Cargo.lock"
        THEN [ok |-> TRUE, err |-> NoError, entries |-> <<>>]
        ELSE IF rel_filename = VCS_INFO_FILE
        THEN [ok |-> FALSE, entries |-> <<>>,
              err |-> [kind |-> "invalid inclusion of reserved file name", file |-> VCS_INFO_FILE]]
        ELSE [ok |-> TRUE, err |-> NoError,
              entries |-> <<ArchiveFile(rel_path, rel_str, OnDisk(src_file))>>]

\* Lines 154-220: the loop over the candidates.  [ok, result, warn, err]
RECURSIVE SrcLoop(_, _, _, _)
SrcLoop(files, result, warn, nested) ==
    IF files = <<>> THEN [ok |-> TRUE, result |-> result, warn |-> warn, err |-> NoError]
    ELSE LET src_file == Head(files)
             sp == StripPrefix(src_file, Root)
             cf == check_filename(sp.path)
             es == EntriesFor(src_file, sp.path, RelStr(sp.path), nested)
         IN  IF ~sp.ok
             THEN [ok |-> FALSE, result |-> result, warn |-> warn, err |-> [kind |-> "strip_prefix"]]
             ELSE IF ~cf.ok
             THEN [ok |-> FALSE, result |-> result, warn |-> warn, err |-> cf.err]
             ELSE IF ~es.ok
             THEN [ok |-> FALSE, result |-> result, warn |-> warn \o cf.warn, err |-> es.err]
             ELSE SrcLoop(Tail(files), result \o es.entries, warn \o cf.warn, nested)

\* Lines 221-234: the generated Cargo.lock and .cargo_vcs_info.json.
AddGenerated(result, include_lockfile, vcs) ==
    result
    \o (IF include_lockfile
        THEN <<ArchiveFile(<<"Cargo.lock">>, "Cargo.lock", GeneratedLockfile)>> ELSE <<>>)
    \o (IF vcs # <<>>
        THEN <<ArchiveFile(<<VCS_INFO_FILE>>, VCS_INFO_FILE, GeneratedVcsInfo(vcs[1]))>> ELSE <<>>)

\* Only a file at the root of the package counts as the same name.
LicenseOutsideRootOnly(result, license_path, abs_license_path) ==
    LET license_name == FileName(license_path)
    IN  IF \E i \in 1..Len(result) : result[i].rel_path = <<license_name>>
        THEN [result |-> result,
              warn |-> <<[kind |-> "license-file outside of the package",
                          license_file |-> RelStr(license_path), name |-> license_name]>>]
        ELSE [result |-> Append(result, ArchiveFile(<<license_name>>, license_name, OnDisk(abs_license_path))),
              warn |-> <<>>]

\* Lines 252-275: the license file lies outside the package.
LicenseOutside(result, license_path, abs_license_path) ==
    LET license_name == FileName(license_path)
    IN  IF \E i \in 1..Len(result) : FileName(result[i].rel_path) = license_name
        THEN [result |-> result,
              warn |-> <<[kind |-> "license-file outside of the package",
                          license_file |-> RelStr(license_path), name |-> license_name]>>]
        ELSE [result |-> Append(result, ArchiveFile(<<license_name>>, license_name, OnDisk(abs_license_path))),
              warn |-> <<>>]

\* Lines 240-251: the license file lies in the package.
LicenseInside(result, rel_license_path, abs_license_path) ==
    IF ~\E i \in 1..Len(result) : result[i].rel_path = rel_license_path
    THEN [result |-> Append(result, ArchiveFile(rel_license_path, RelStr(rel_license_path), OnDisk(abs_license_path))),
          warn |-> <<>>]
    ELSE [result |-> result, warn |-> <<>>]

\* Lines 235-292.  [result, warn]
AddLicense(result, license_file, exists) ==
    IF license_file = <<>> THEN [result |-> result, warn |-> <<>>]
    ELSE LET license_path == license_file[1]
             abs_license_path == NormalizePath(<<>>, Root \o license_path)
             sp == StripPrefix(abs_license_path, Root)
         IN  IF exists
             THEN IF sp.ok THEN LicenseInside(result, sp.path, abs_license_path)
                  ELSE LicenseOutside(result, license_path, abs_license_path)
             ELSE [result |-> result,
                   warn |-> <<[kind |-> "license-file does not appear to exist",
                               license_file |-> RelStr(license_path)]>>]

\* Where e may stand in the sorted s: after everything smaller, before
\* everything greater.
InsertSorted(s, e) ==
    { SubSeq(s, 1, i) \o <<e>> \o SubSeq(s, i + 1, Len(s)) :
        i \in { j \in 0..Len(s) : /\ \A k \in 1..j : ~PathLess(e.rel_path, s[k].rel_path)
                                  /\ \A k \in (j + 1)..Len(s) : ~PathLess(s[k].rel_path, e.rel_path) } }

\* The sort forgotten.
SortArFilesNot(result) == {result}

\* Line 293: sort_unstable_by rel_path.  The sort leaves the order of
\* entries with equal paths open: every sorted permutation is an outcome.
RECURSIVE SortArFiles(_)
SortArFiles(result) ==
    IF result = <<>> THEN {<<>>}
    ELSE UNION { InsertSorted(t, Head(result)) : t \in SortArFiles(Tail(result)) }

\* The outcomes of build_ar_list: [ok, result, warn, err]
build_ar_list(p, files, vcs, e) ==
    LET loop == SrcLoop(files, <<>>, <<>>, e.nested_manifest)
        lic == AddLicense(AddGenerated(loop.result, p.include_lockfile, vcs),
                          p.license_file, e.license_exists)
    IN  IF ~loop.ok THEN { [ok |-> FALSE, result |-> <<>>, warn |-> loop.warn, err |-> loop.err] }
        ELSE { [ok |-> TRUE, result |-> sorted, warn |-> loop.warn \o lic.warn, err |-> NoError] :
                 sorted \in SortArFiles(lic.result) }

(***************************************************************************)
(* check_yanked (lines 666-685) and build_lock (lines 299-327).            *)
(***************************************************************************)
\* Lines 672-683: [ok, warn, err]
RECURSIVE YankedLoop(_, _)
YankedLoop(ids, warn) ==
    IF ids = <<>> THEN [ok |-> TRUE, warn |-> warn, err |-> NoError]
    ELSE LET pkg_id == Head(ids)
         IN  IF ~pkg_id.has_source THEN YankedLoop(Tail(ids), warn)
             ELSE IF pkg_id.yanked = "err"
             THEN [ok |-> FALSE, warn |-> warn, err |-> [kind |-> "is_yanked", id |-> pkg_id.id]]
             ELSE IF pkg_id.yanked = "yes"
             THEN YankedLoop(Tail(ids), Append(warn, [kind |-> "yanked", id |-> pkg_id.id]))
             ELSE YankedLoop(Tail(ids), warn)

\* A yanked package treated as an error.
check_yanked_strict(e) ==
    LET r == YankedLoop(e.resolve, <<>>)
    IN  IF e.fault = "acquire_package_cache_lock"
        THEN Fail([kind |-> "acquire_package_cache_lock"])
        ELSE IF r.ok /\ r.warn # <<>>
        THEN [ok |-> FALSE, warn |-> r.warn, err |-> [kind |-> "yanked", id |-> r.warn[1].id]]
        ELSE r

check_yanked(e) ==
    IF e.fault = "acquire_package_cache_lock"
    THEN Fail([kind |-> "acquire_package_cache_lock"])
    ELSE YankedLoop(e.resolve, <<>>)

\* [ok, warn, err]; the lock's text is not modelled beyond the ids it pins.
build_lock(e) ==
    IF e.fault = "load_pkg_lockfile" THEN Fail([kind |-> "load_pkg_lockfile"])
    ELSE IF e.fault = "lock_resolve_ws" THEN Fail([kind |-> "resolve_ws"])
    ELSE check_yanked(e)

(***************************************************************************)
(* tar (lines 507-577).                                                    *)
(***************************************************************************)
BaseName == "pkg-0.1.0"

Member(ar_file) ==
    [path |-> BaseName \o "/" \o ar_file.rel_str, rel |-> ar_file.rel_str, contents |-> ar_file.contents]

\* Lines 526-572.  io_at is the entry whose append fails, 0 when the disk
\* holds.  [ok, data, warn, err]
RECURSIVE TarLoop(_, _, _, _, _, _)
TarLoop(files, i, data, warn, io_at, e) ==
    IF i > Len(files) THEN [ok |-> TRUE, data |-> data, warn |-> warn, err |-> NoError]
    ELSE LET ar_file == files[i]
             kind == ar_file.contents.kind
             lock == build_lock(e)
         IN  IF kind = "Manifest" /\ e.fault = "to_registry_toml"
             THEN [ok |-> FALSE, data |-> data, warn |-> warn, err |-> [kind |-> "to_registry_toml"]]
             ELSE IF kind = "Lockfile" /\ ~lock.ok
             THEN [ok |-> FALSE, data |-> data, warn |-> warn \o lock.warn, err |-> lock.err]
             ELSE IF io_at = i
             THEN [ok |-> FALSE, data |-> data, warn |-> warn \o (IF kind = "Lockfile" THEN lock.warn ELSE <<>>),
                   err |-> [kind |-> "could not archive source file", file |-> ar_file.rel_str]]
             ELSE TarLoop(files, i + 1, Append(data, Member(ar_file)),
                          warn \o (IF kind = "Lockfile" THEN lock.warn ELSE <<>>), io_at, e)

\* [ok, data, sealed, warn, err]: what the scratch file holds afterwards.
tar(files, io_at, e) ==
    LET loop == TarLoop(files, 1, <<>>, <<>>, io_at, e)
    IN  IF ~loop.ok
        THEN [ok |-> FALSE, data |-> loop.data, sealed |-> FALSE, warn |-> loop.warn, err |-> loop.err]
        ELSE IF io_at = Len(files) + 1
        THEN [ok |-> FALSE, data |-> loop.data, sealed |-> FALSE, warn |-> loop.warn,
              err |-> [kind |-> "encoder.finish"]]
        ELSE [ok |-> TRUE, data |-> loop.data, sealed |-> TRUE, warn |-> loop.warn, err |-> NoError]

(***************************************************************************)
(* report_hash_difference (lines 788-821).  A fingerprint is a function    *)
(* from path strings to hashes.                                            *)
(***************************************************************************)
RECURSIVE SortStrings(_)
SortStrings(s) ==
    IF s = <<>> THEN <<>>
    ELSE LET rest == SortStrings(Tail(s))
             e == Head(s)
             k == Cardinality({i \in 1..Len(rest) : StrLess(rest[i], e)})
         IN  SubSeq(rest, 1, k) \o <<e>> \o SubSeq(rest, k + 1, Len(rest))

RECURSIVE Join(_, _)
Join(s, sep) ==
    IF s = <<>> THEN ""
    ELSE IF Len(s) = 1 THEN s[1]
    ELSE s[1] \o sep \o Join(Tail(s), sep)

RECURSIVE ChangedIn(_, _, _)
ChangedIn(keys, orig, after) ==
    IF keys = <<>> THEN <<>>
    ELSE (IF Head(keys) \in DOMAIN after /\ orig[Head(keys)] # after[Head(keys)]
          THEN <<Head(keys)>> ELSE <<>>) \o ChangedIn(Tail(keys), orig, after)

RECURSIVE NotIn(_, _)
NotIn(keys, other) ==
    IF keys = <<>> THEN <<>>
    ELSE (IF Head(keys) \notin DOMAIN other THEN <<Head(keys)>> ELSE <<>>) \o NotIn(Tail(keys), other)

\* Removed reported before Added.
SectionsRemovedFirst(changed, added, removed) ==
    (IF changed # <<>> THEN <<"Changed: " \o Join(SortStrings(changed), "\n\t")>> ELSE <<>>)
    \o (IF removed # <<>> THEN <<"Removed: " \o Join(SortStrings(removed), "\n\t")>> ELSE <<>>)
    \o (IF added # <<>> THEN <<"Added: " \o Join(SortStrings(added), "\n\t")>> ELSE <<>>)

\* Lines 806-818: the sections pushed to result, in order.
Sections(changed, added, removed) ==
    (IF changed # <<>> THEN <<"Changed: " \o Join(SortStrings(changed), "\n\t")>> ELSE <<>>)
    \o (IF added # <<>> THEN <<"Added: " \o Join(SortStrings(added), "\n\t")>> ELSE <<>>)
    \o (IF removed # <<>> THEN <<"Removed: " \o Join(SortStrings(removed), "\n\t")>> ELSE <<>>)

\* orig_iter and after_keys are the orders in which the two HashMaps hand
\* out their keys.  [panic, text]
report_hash_difference(orig, after, orig_iter, after_keys) ==
    LET changed == ChangedIn(orig_iter, orig, after)
        removed == NotIn(orig_iter, after)
        added == NotIn(after_keys, orig)
        result == Sections(changed, added, removed)
    IN  IF result = <<>> THEN [panic |-> TRUE, text |-> ""]
        ELSE [panic |-> FALSE, text |-> Join(result, "\n")]

\* The orders in which a HashMap may hand out its keys.
IterOrders(map) == {s \in DistinctSeqs(DOMAIN map, Cardinality(DOMAIN map)) : Len(s) = Cardinality(DOMAIN map)}

(***************************************************************************)
(* run_verify (lines 687-761).                                             *)
(***************************************************************************)
ContentHash == 1

\* hash_all of the tree the archive unpacks to: one key per member, named
\* from the unpacked directory (a prefix all keys share orders nothing).
UnpackedFingerprint(data) ==
    [k \in {data[i].rel : i \in 1..Len(data)} |-> ContentHash]

\* hash_all after the build: what build.rs did to the unpacked tree.
AfterBuild(before, build_rs) ==
    LET keys == DOMAIN before
        first == CHOOSE k \in keys : \A j \in keys : k = j \/ StrLess(k, j)
    IN  IF build_rs = "none" \/ keys = {} THEN before
        ELSE IF build_rs = "modify" THEN [before EXCEPT ![first] = ContentHash + 1]
        ELSE IF build_rs = "remove" THEN [k \in keys \ {first} |-> before[k]]
        ELSE [k \in keys \cup {"d"} |-> IF k \in keys THEN before[k] ELSE ContentHash]

\* The comparison dropped.
FingerprintsDifferNever(before, after) == FALSE

\* Line 749.
FingerprintsDiffer(before, after) == before # after

(***************************************************************************)
(* package (lines 67-142), one action per stage.                           *)
(***************************************************************************)
Absent == [exists |-> FALSE, data |-> <<>>, sealed |-> FALSE]

Empty == [exists |-> TRUE, data |-> <<>>, sealed |-> FALSE]

\* An archive an earlier run left behind.
Prior == [exists |-> TRUE, sealed |-> TRUE,
          data |-> <<[path |-> "prior", rel |-> "prior", contents |-> [kind |-> "Prior"]]>>]

NoReport == [panic |-> FALSE, text |-> ""]

\* A failure that jumps to the rename instead of returning.
AbortToRename(e) ==
    /\ pc' = "rename"
    /\ ret' = "Err"
    /\ error' = e

Abort(e) ==
    /\ pc' = "done"
    /\ ret' = "Err"
    /\ error' = e

\* Lines 68-78: resolve_ws when Cargo.lock exists, ws.current, src.update.
Start ==
    /\ pc = "start"
    /\ IF env.lock_exists /\ env.fault = "resolve_ws"
       THEN Abort([kind |-> "resolve_ws"])
       ELSE IF env.fault = "src_update"
       THEN Abort([kind |-> "src_update"])
       ELSE pc' = "check_metadata" /\ UNCHANGED <<ret, error>>
    /\ UNCHANGED <<cache_lock, inv, opts, pkg, env, src_files, vcs_info, ar_files, warnings, stdout,
                   tmp_file, pub_file, log, pkg_fingerprint, ws_fingerprint, changes>>

\* Lines 80-89.
CheckMetadata ==
    /\ pc = "check_metadata"
    /\ warnings' = warnings
          \o (IF opts.check_metadata THEN check_metadata(pkg.metadata) ELSE <<>>)
          \o (IF pkg.has_exclude /\ pkg.has_include
              THEN <<[kind |-> "both package.include and package.exclude are specified"]>>
              ELSE <<>>)
    /\ log' = IF opts.check_metadata THEN Append(log, "check_metadata") ELSE log
    /\ pc' = "list_files"
    /\ UNCHANGED <<cache_lock, inv, opts, pkg, env, src_files, vcs_info, ar_files, stdout, error, ret,
                   tmp_file, pub_file, pkg_fingerprint, ws_fingerprint, changes>>

\* Line 90.
ListFiles ==
    /\ pc = "list_files"
    /\ log' = Append(log, "list_files")
    /\ IF env.fault = "list_files"
       THEN Abort([kind |-> "list_files"]) /\ UNCHANGED src_files
       ELSE src_files' = env.files /\ pc' = "check_repo_state" /\ UNCHANGED <<ret, error>>
    /\ UNCHANGED <<cache_lock, inv, opts, pkg, env, vcs_info, ar_files, warnings, stdout,
                   tmp_file, pub_file, pkg_fingerprint, ws_fingerprint, changes>>

\* Lines 94-100.
CheckRepoState ==
    /\ pc = "check_repo_state"
    /\ IF ~opts.allow_dirty
       THEN LET r == check_repo_state(env.repo, src_files, env.verbose)
            IN  /\ log' = Append(log, "check_repo_state")
                /\ warnings' = warnings \o r.warn
                /\ IF r.ok
                   THEN /\ vcs_info' = IF r.hash = <<>> THEN <<>> ELSE <<VcsInfoText(r.hash[1])>>
                        /\ pc' = "build_ar_list"
                        /\ UNCHANGED <<ret, error>>
                   ELSE Abort(r.err) /\ UNCHANGED vcs_info
       ELSE /\ vcs_info' = <<>>
            /\ pc' = "build_ar_list"
            /\ UNCHANGED <<ret, error, log, warnings>>
    /\ UNCHANGED <<cache_lock, inv, opts, pkg, env, src_files, ar_files, stdout,
                   tmp_file, pub_file, pkg_fingerprint, ws_fingerprint, changes>>

\* Line 102.
BuildArList ==
    /\ pc = "build_ar_list"
    /\ log' = Append(log, "build_ar_list")
    /\ \E out \in build_ar_list(pkg, src_files, vcs_info, env) :
          /\ warnings' = warnings \o out.warn
          /\ IF out.ok
             THEN ar_files' = out.result /\ pc' = "list" /\ UNCHANGED <<ret, error>>
             ELSE Abort(out.err) /\ UNCHANGED ar_files
    /\ UNCHANGED <<cache_lock, inv, opts, pkg, env, src_files, vcs_info, stdout,
                   tmp_file, pub_file, pkg_fingerprint, ws_fingerprint, changes>>

\* The listing printed without the return.
ListNoReturn ==
    /\ pc = "list"
    /\ stdout' = IF opts.list
                 THEN stdout \o [i \in 1..Len(ar_files) |-> ar_files[i].rel_str]
                 ELSE stdout
    /\ pc' = "verify_dependencies"
    /\ UNCHANGED <<cache_lock, inv, opts, pkg, env, src_files, vcs_info, ar_files, warnings, error,
                   ret, tmp_file, pub_file, log, pkg_fingerprint, ws_fingerprint, changes>>

\* Lines 104-109.
List ==
    /\ pc = "list"
    /\ IF opts.list
       THEN /\ stdout' = stdout \o [i \in 1..Len(ar_files) |-> ar_files[i].rel_str]
            /\ ret' = "Ok(None)"
            /\ pc' = "done"
       ELSE pc' = "verify_dependencies" /\ UNCHANGED <<stdout, ret>>
    /\ UNCHANGED <<cache_lock, inv, opts, pkg, env, src_files, vcs_info, ar_files, warnings, error,
                   tmp_file, pub_file, log, pkg_fingerprint, ws_fingerprint, changes>>

\* Line 111.
VerifyDependencies ==
    /\ pc = "verify_dependencies"
    /\ log' = Append(log, "verify_dependencies")
    /\ LET r == verify_dependencies(pkg.dependencies)
       IN  IF r.ok THEN pc' = "open_rw" /\ UNCHANGED <<ret, error>>
           ELSE Abort(r.err)
    /\ UNCHANGED <<cache_lock, inv, opts, pkg, env, src_files, vcs_info, ar_files, warnings, stdout,
                   tmp_file, pub_file, pkg_fingerprint, ws_fingerprint, changes>>

\* Lines 113-118: open_rw opens the scratch file, creating it when absent.
OpenRw ==
    /\ pc = "open_rw"
    /\ IF env.fault = "open_rw"
       THEN Abort([kind |-> "open_rw"]) /\ UNCHANGED tmp_file
       ELSE /\ tmp_file' = IF tmp_file.exists THEN tmp_file ELSE Empty
            /\ pc' = "set_len"
            /\ UNCHANGED <<ret, error>>
    /\ UNCHANGED <<cache_lock, inv, opts, pkg, env, src_files, vcs_info, ar_files, warnings, stdout,
                   pub_file, log, pkg_fingerprint, ws_fingerprint, changes>>

\* Line 127.
SetLen ==
    /\ pc = "set_len"
    /\ IF env.fault = "set_len"
       THEN Abort([kind |-> "set_len"]) /\ UNCHANGED tmp_file
       ELSE tmp_file' = Empty /\ pc' = "tar" /\ UNCHANGED <<ret, error>>
    /\ UNCHANGED <<cache_lock, inv, opts, pkg, env, src_files, vcs_info, ar_files, warnings, stdout,
                   pub_file, log, pkg_fingerprint, ws_fingerprint, changes>>

\* Lines 128-129.  A disk fault strikes at any entry, or at the finish.
Tar ==
    /\ pc = "tar"
    /\ log' = Append(log, "tar")
    /\ \E io_at \in (IF env.fault = "tar_io" THEN 1..(Len(ar_files) + 1) ELSE {0}) :
          LET t == tar(ar_files, io_at, env)
          IN  /\ tmp_file' = [exists |-> TRUE, data |-> t.data, sealed |-> t.sealed]
              /\ warnings' = warnings \o t.warn
              /\ IF t.ok THEN pc' = "run_verify" /\ UNCHANGED <<ret, error>>
                 ELSE Abort(t.err)
    /\ UNCHANGED <<cache_lock, inv, opts, pkg, env, src_files, vcs_info, ar_files, stdout,
                   pub_file, pkg_fingerprint, ws_fingerprint, changes>>

\* Lines 130-133 and run_verify (lines 687-761).
RunVerify ==
    /\ pc = "run_verify"
    /\ IF ~opts.verify
       THEN /\ pc' = "rename"
            /\ UNCHANGED <<ret, error, log, pkg_fingerprint, ws_fingerprint, changes>>
       ELSE /\ log' = Append(log, "run_verify")
            /\ IF env.fault = "unpack"
               THEN /\ Abort([kind |-> "unpack"])
                    /\ UNCHANGED <<pkg_fingerprint, ws_fingerprint, changes>>
               ELSE /\ pkg_fingerprint' = UnpackedFingerprint(tmp_file.data)
                    /\ IF env.fault = "compile"
                       THEN /\ Abort([kind |-> "compile"])
                            /\ UNCHANGED <<ws_fingerprint, changes>>
                       ELSE /\ ws_fingerprint' = AfterBuild(pkg_fingerprint', env.build_rs)
                            /\ IF FingerprintsDiffer(pkg_fingerprint', ws_fingerprint')
                               THEN /\ \E o \in IterOrders(pkg_fingerprint'), a \in IterOrders(ws_fingerprint') :
                                          changes' = report_hash_difference(pkg_fingerprint', ws_fingerprint', o, a)
                                    /\ Abort([kind |-> "Source directory was modified by build.rs",
                                              changes |-> changes'.text])
                               ELSE /\ pc' = "rename"
                                    /\ UNCHANGED <<ret, error, changes>>
    /\ UNCHANGED <<cache_lock, inv, opts, pkg, env, src_files, vcs_info, ar_files, warnings, stdout,
                   tmp_file, pub_file>>

\* Lines 134-141: the scratch file takes the public name.
Rename ==
    /\ pc = "rename"
    /\ log' = Append(log, "rename")
    /\ IF env.fault = "rename"
       THEN Abort([kind |-> "rename"]) /\ UNCHANGED <<tmp_file, pub_file>>
       ELSE /\ pub_file' = tmp_file
            /\ tmp_file' = Absent
            /\ ret' = "Ok(Some)"
            /\ pc' = "done"
            /\ UNCHANGED error
    /\ UNCHANGED <<cache_lock, inv, opts, pkg, env, src_files, vcs_info, ar_files, warnings, stdout,
                   pkg_fingerprint, ws_fingerprint, changes>>

Next ==
    \/ Start
    \/ CheckMetadata
    \/ ListFiles
    \/ CheckRepoState
    \/ BuildArList
    \/ List
    \/ VerifyDependencies
    \/ OpenRw
    \/ SetLen
    \/ Tar
    \/ RunVerify
    \/ Rename

(***************************************************************************)
(* Initial states: package() has not started; its inputs are drawn from    *)
(* bounded sets, one family of inputs per specification.                   *)
(***************************************************************************)
Abs(rel) == Root \o rel

\* A scratch file a failed earlier run left behind.
Stale == [exists |-> TRUE, sealed |-> FALSE,
          data |-> <<[path |-> "stale", rel |-> "stale", contents |-> [kind |-> "Prior"]]>>]

FullMetadata ==
    [description |-> TRUE, license |-> TRUE, license_file |-> FALSE,
     documentation |-> TRUE, homepage |-> FALSE, repository |-> FALSE]

DefaultOpts == [list |-> FALSE, check_metadata |-> TRUE, allow_dirty |-> FALSE, verify |-> TRUE]

DefaultPkg ==
    [include_lockfile |-> FALSE, license_file |-> <<>>, dependencies |-> <<>>,
     metadata |-> FullMetadata, has_exclude |-> FALSE, has_include |-> FALSE]

StatusOk(flags) == [ok |-> TRUE, flags |-> flags]

StatusErr == [ok |-> FALSE, flags |-> {}]

NoRepo == [kind |-> "none", status |-> <<>>, head |-> <<>>, submodules |-> <<>>, submodules_ok |-> TRUE]

\* The paths, from the work directory, whose status the repository is asked.
Tracked(files) == {StripPrefix(f, WorkDir).path : f \in Range(files) \cup {ManifestPath}}

CleanRepo(files) ==
    [kind |-> "work", status |-> [p \in Tracked(files) |-> StatusOk(CURRENT)],
     head |-> <<"abc123">>, submodules |-> <<>>, submodules_ok |-> TRUE]

DefaultEnv ==
    [lock_exists |-> FALSE, files |-> <<Abs(<<"Cargo.toml">>), Abs(<<"lib.rs">>)>>, repo |-> NoRepo,
     verbose |-> FALSE, nested_manifest |-> "Real", license_exists |-> FALSE,
     resolve |-> <<>>, fault |-> "none", build_rs |-> "none",
     pub0 |-> Absent, tmp0 |-> Absent]

InitWith(o, p, e, pub, tmp) ==
    /\ opts = o
    /\ pkg = p
    /\ env = [e EXCEPT !.pub0 = pub, !.tmp0 = tmp]
    /\ pc = "start"
    /\ src_files = <<>>
    /\ vcs_info = <<>>
    /\ ar_files = <<>>
    /\ warnings = <<>>
    /\ stdout = <<>>
    /\ error = NoError
    /\ ret = "running"
    /\ tmp_file = tmp
    /\ pub_file = pub
    /\ log = <<>>
    /\ pkg_fingerprint = <<>>
    /\ ws_fingerprint = <<>>
    /\ changes = NoReport
    /\ cache_lock = 0
    /\ inv = <<>>

Bools == {TRUE, FALSE}

Faults ==
    {"none", "resolve_ws", "src_update", "list_files", "open_rw", "set_len", "tar_io",
     "to_registry_toml", "load_pkg_lockfile", "lock_resolve_ws", "acquire_package_cache_lock",
     "unpack", "compile", "rename"}

DepUniverse ==
    { [name |-> "pinned", is_path |-> TRUE, specified_req |-> TRUE, is_transitive |-> TRUE],
      [name |-> "unpinned", is_path |-> TRUE, specified_req |-> FALSE, is_transitive |-> TRUE],
      [name |-> "devonly", is_path |-> TRUE, specified_req |-> FALSE, is_transitive |-> FALSE],
      [name |-> "registry", is_path |-> FALSE, specified_req |-> FALSE, is_transitive |-> TRUE] }

\* Every option, every single fault and every build script, on a package of
\* two files in a clean repository.
InitFaults ==
    \E list \in Bools, check_md \in Bools, verify \in Bools, lockfile \in Bools,
       fault \in Faults, build_rs \in {"none", "modify", "add", "remove"},
       pub \in {Absent, Prior}, tmp \in {Absent, Stale} :
        /\ fault = "none" \/ build_rs = "none"
        /\ build_rs # "none" => verify /\ ~list /\ ~lockfile
        /\ InitWith([list |-> list, check_metadata |-> check_md, allow_dirty |-> FALSE, verify |-> verify],
                    [DefaultPkg EXCEPT !.include_lockfile = lockfile, !.metadata.description = verify,
                                       !.has_exclude = list, !.has_include = lockfile],
                    [DefaultEnv EXCEPT !.fault = fault, !.build_rs = build_rs, !.lock_exists = lockfile,
                                       !.repo = CleanRepo(DefaultEnv.files)],
                    pub, tmp)

DirtyRepo(files) ==
    [CleanRepo(files) EXCEPT !.status = [p \in Tracked(files) |-> StatusOk({"WT_MODIFIED"})]]

\* Candidate files with names check_filename objects to, in every order.
InitNames ==
    \E files \in DistinctSeqs({Abs(<<"Cargo.toml">>), Abs(<<"lib.rs">>), Abs(<<"a:b">>), Abs(<<"nul">>),
                               Abs(<<"q?*">>), Abs(<<"<w>">>)}, MaxFiles),
       list \in Bools, allow_dirty \in Bools, tmp \in {Absent, Stale},
       repo \in {"none", "clean", "dirty"} :
        InitWith([DefaultOpts EXCEPT !.list = list, !.allow_dirty = allow_dirty, !.verify = FALSE],
                 DefaultPkg,
                 [DefaultEnv EXCEPT !.files = files,
                                    !.repo = IF repo = "none" THEN NoRepo
                                             ELSE IF repo = "clean" THEN CleanRepo(files)
                                             ELSE DirtyRepo(files)],
                 Absent, tmp)

\* Every dependency list.
InitDeps ==
    \E deps \in DistinctSeqs(DepUniverse, MaxDeps), list \in Bools, tmp \in {Absent, Stale},
       fault \in {"none", "open_rw", "tar_io"} :
        InitWith([DefaultOpts EXCEPT !.list = list, !.verify = FALSE],
                 [DefaultPkg EXCEPT !.dependencies = deps],
                 [DefaultEnv EXCEPT !.fault = fault],
                 Absent, tmp)

\* What the registry says of each resolved package.
ResolveUniverse ==
    { [id |-> "r1", has_source |-> TRUE, yanked |-> "yes"],
      [id |-> "r2", has_source |-> TRUE, yanked |-> "yes"],
      [id |-> "r3", has_source |-> TRUE, yanked |-> "no"],
      [id |-> "r4", has_source |-> TRUE, yanked |-> "err"],
      [id |-> "r5", has_source |-> FALSE, yanked |-> "yes"] }

\* Every resolve graph, with and without a Cargo.lock to generate.
InitYanked ==
    \E resolve \in DistinctSeqs(ResolveUniverse, MaxResolve), lockfile \in Bools, verify \in Bools,
       fault \in {"none", "tar_io", "lock_resolve_ws", "acquire_package_cache_lock"} :
        InitWith([DefaultOpts EXCEPT !.verify = verify],
                 [DefaultPkg EXCEPT !.include_lockfile = lockfile],
                 [DefaultEnv EXCEPT !.resolve = resolve, !.fault = fault],
                 Absent, Absent)

Init == InitFaults \/ InitNames \/ InitDeps \/ InitYanked

Spec == Init /\ [][Next]_vars

(***************************************************************************)
(* SpecArList: build_ar_list on every list of candidate files.             *)
(***************************************************************************)
ArListUniverse ==
    { Abs(<<"Cargo.toml">>), Abs(<<"Cargo.toml.orig">>), Abs(<<"x", "Cargo.toml">>),
      Abs(<<"x", "Cargo.toml.orig">>), Abs(<<"LICENSE">>), Abs(<<"x", "LICENSE">>),
      Abs(<<"Cargo.lock">>), Abs(<<"x-y">>), Abs(<<VCS_INFO_FILE>>) }

\* license-file: none, in the package, in a directory of it, outside of it.
LicenseFiles == {<<>>, <<<<"LICENSE">>>>, <<<<"x", "LICENSE">>>>, <<<<"..", "LICENSE">>>>, <<<<"..", "Cargo.lock">>>>}

InitArList ==
    \E files \in DistinctSeqs(ArListUniverse, MaxFiles), lockfile \in Bools,
       license_file \in LicenseFiles, license_exists \in Bools,
       nested \in {"Real", "Virtual", "Err"}, in_repo \in Bools, list \in Bools :
        /\ nested # "Real" => Abs(<<"x", "Cargo.toml">>) \in Range(files)
        /\ license_file = <<>> => ~license_exists
        /\ ~list => Len(files) <= 1
        /\ InitWith([DefaultOpts EXCEPT !.list = list, !.verify = FALSE],
                    [DefaultPkg EXCEPT !.include_lockfile = lockfile, !.license_file = license_file],
                    [DefaultEnv EXCEPT !.files = files, !.nested_manifest = nested,
                                       !.license_exists = license_exists,
                                       !.repo = IF in_repo THEN CleanRepo(files) ELSE NoRepo],
                    Absent, Absent)

SpecArList == InitArList /\ [][Next]_vars

(***************************************************************************)
(* SpecVcs: check_repo_state on every repository state.                    *)
(***************************************************************************)
VcsUniverse ==
    {Abs(<<"Cargo.toml">>), Abs(<<"lib.rs">>), Abs(<<"Cargo.lock">>), Abs(<<"x", "lib.rs">>)}

Statuses ==
    {StatusOk(CURRENT), StatusOk({"WT_MODIFIED"}), StatusOk({"WT_NEW"}), StatusOk(IGNORED), StatusErr}

\* A submodule checked out at x, holding x/lib.rs.
Submodule(opens, status) ==
    [workdir |-> Abs(<<"x">>), opens |-> opens, status |-> (<<"lib.rs">> :> status), submodules |-> <<>>]

InitVcs ==
    \E files \in DistinctSeqs(VcsUniverse, MaxFiles), allow_dirty \in Bools, list \in Bools,
       kind \in {"none", "bare", "work"}, head \in {<<>>, <<"abc123">>}, verbose \in Bools,
       opens \in Bools, sub_status \in {StatusOk(CURRENT), StatusOk({"WT_MODIFIED"}), StatusErr} :
        \E status \in [Tracked(files) -> Statuses] :
            /\ kind # "work" => /\ \A p \in Tracked(files) : status[p] = StatusOk(CURRENT)
                                /\ head = <<>>
            /\ (head = <<>> \/ verbose \/ ~list) => Len(files) <= 1
            /\ LET in_sub == /\ Abs(<<"x", "lib.rs">>) \in Range(files)
                             /\ kind = "work"
                             /\ status[<<"pkg", "x", "lib.rs">>] = StatusErr
               IN  /\ ~in_sub => opens /\ sub_status = StatusOk(CURRENT)
                   /\ ~opens => sub_status = StatusOk(CURRENT)
            /\ InitWith([DefaultOpts EXCEPT !.list = list, !.allow_dirty = allow_dirty, !.verify = FALSE],
                        DefaultPkg,
                        [DefaultEnv EXCEPT !.files = files, !.verbose = verbose,
                                           !.repo = [kind |-> kind, status |-> status, head |-> head,
                                                     submodules |-> <<Submodule(opens, sub_status)>>,
                                                     submodules_ok |-> TRUE]],
                        Absent, Absent)

SpecVcs == InitVcs /\ [][Next]_vars

(***************************************************************************)
(* SpecDiff: report_hash_difference on every pair of fingerprints that     *)
(* differ, as run_verify calls it (line 749).                              *)
(***************************************************************************)
FpKeys == {"a", "b", "c"}

Fingerprints == UNION {[D -> 1..MaxHash] : D \in SUBSET FpKeys}

ExampleBefore == ("a" :> 1) @@ ("b" :> 2)

ExampleAfter == ("a" :> 1) @@ ("b" :> 3) @@ ("c" :> 4)

InitDiff ==
    /\ \/ /\ pkg_fingerprint \in Fingerprints
          /\ ws_fingerprint \in Fingerprints
       \/ /\ pkg_fingerprint = ExampleBefore
          /\ ws_fingerprint = ExampleAfter
    /\ pkg_fingerprint # ws_fingerprint
    /\ opts = DefaultOpts
    /\ pkg = DefaultPkg
    /\ env = DefaultEnv
    /\ pc = "report_hash_difference"
    /\ src_files = <<>>
    /\ vcs_info = <<>>
    /\ ar_files = <<>>
    /\ warnings = <<>>
    /\ stdout = <<>>
    /\ error = NoError
    /\ ret = "running"
    /\ tmp_file = Absent
    /\ pub_file = Absent
    /\ log = <<>>
    /\ changes = NoReport
    /\ cache_lock = 0
    /\ inv = <<>>

ReportHashDifference ==
    /\ pc = "report_hash_difference"
    /\ \E o \in IterOrders(pkg_fingerprint), a \in IterOrders(ws_fingerprint) :
          changes' = report_hash_difference(pkg_fingerprint, ws_fingerprint, o, a)
    /\ pc' = "reported"
    /\ UNCHANGED <<cache_lock, inv, opts, pkg, env, src_files, vcs_info, ar_files, warnings, stdout, error, ret,
                   tmp_file, pub_file, log, pkg_fingerprint, ws_fingerprint>>

NextDiff == ReportHashDifference

SpecDiff == InitDiff /\ [][NextDiff]_vars

(***************************************************************************)
(* Concurrent invocations of check_yanked (lines 666-685).  Each           *)
(* invocation p has its own resolve; they share the package-cache lock.    *)
(* inv[p].pc is "call" before line 669 has returned, "loop" inside the     *)
(* for loop and "returned" after check_yanked has returned.                *)
(***************************************************************************)
Procs == 1..NProcs

\* The ids a resolve may list, in a fixed order; an invocation's resolve is
\* a stretch of it.
AllIds ==
    << [id |-> "r5", has_source |-> FALSE, yanked |-> "yes"],
       [id |-> "r1", has_source |-> TRUE, yanked |-> "yes"],
       [id |-> "r4", has_source |-> TRUE, yanked |-> "err"],
       [id |-> "r3", has_source |-> TRUE, yanked |-> "no"],
       [id |-> "r2", has_source |-> TRUE, yanked |-> "yes"] >>

Resolves == {SubSeq(AllIds, a, b) : a \in 1..Len(AllIds), b \in 0..Len(AllIds)}

\* The lock is exclusive: it can be taken only while nobody holds it.
PackageCacheFree == cache_lock = 0

\* Line 669: acquire_package_cache_lock()?.  Blocks while the lock is held.
Acquire(p) ==
    /\ inv[p].pc = "call"
    /\ IF inv[p].lock_fault
       THEN /\ inv' = [inv EXCEPT ![p].pc = "returned", ![p].ok = FALSE,
                                  ![p].err = [kind |-> "acquire_package_cache_lock"]]
            /\ UNCHANGED cache_lock
       ELSE /\ PackageCacheFree
            /\ cache_lock' = p
            /\ inv' = [inv EXCEPT ![p].pc = "loop"]
    /\ UNCHANGED <<opts, pkg, env, pc, src_files, vcs_info, ar_files, warnings, stdout,
                   error, ret, tmp_file, pub_file, log, pkg_fingerprint, ws_fingerprint,
                   changes>>

\* An error return that leaves the lock held.
QueryKeepsLockOnErr(p) ==
    /\ inv[p].pc = "loop"
    /\ inv[p].rest # <<>>
    /\ LET pkg_id == Head(inv[p].rest)
       IN  IF pkg_id.has_source /\ pkg_id.yanked = "err"
           THEN /\ inv' = [inv EXCEPT ![p].pc = "returned", ![p].ok = FALSE,
                                      ![p].err = [kind |-> "is_yanked", id |-> pkg_id.id]]
                /\ UNCHANGED cache_lock
           ELSE /\ inv' = [inv EXCEPT ![p].rest = Tail(@),
                                      ![p].warn = IF pkg_id.has_source /\ pkg_id.yanked = "yes"
                                                  THEN Append(@, [kind |-> "yanked", id |-> pkg_id.id])
                                                  ELSE @]
                /\ UNCHANGED cache_lock
    /\ UNCHANGED <<opts, pkg, env, pc, src_files, vcs_info, ar_files, warnings, stdout,
                   error, ret, tmp_file, pub_file, log, pkg_fingerprint, ws_fingerprint,
                   changes>>

\* Lines 672-683: one turn of the loop.  `?` at line 674 returns the error
\* of is_yanked; _lock goes out of scope and the lock is released.
Query(p) ==
    /\ inv[p].pc = "loop"
    /\ inv[p].rest # <<>>
    /\ LET pkg_id == Head(inv[p].rest)
       IN  IF pkg_id.has_source /\ pkg_id.yanked = "err"
           THEN /\ inv' = [inv EXCEPT ![p].pc = "returned", ![p].ok = FALSE,
                                      ![p].err = [kind |-> "is_yanked", id |-> pkg_id.id]]
                /\ cache_lock' = 0
           ELSE /\ inv' = [inv EXCEPT ![p].rest = Tail(@),
                                      ![p].warn = IF pkg_id.has_source /\ pkg_id.yanked = "yes"
                                                  THEN Append(@, [kind |-> "yanked", id |-> pkg_id.id])
                                                  ELSE @]
                /\ UNCHANGED cache_lock
    /\ UNCHANGED <<opts, pkg, env, pc, src_files, vcs_info, ar_files, warnings, stdout,
                   error, ret, tmp_file, pub_file, log, pkg_fingerprint, ws_fingerprint,
                   changes>>

\* Lines 684-685: Ok(()); _lock goes out of scope.
Return(p) ==
    /\ inv[p].pc = "loop"
    /\ inv[p].rest = <<>>
    /\ inv' = [inv EXCEPT ![p].pc = "returned"]
    /\ cache_lock' = 0
    /\ UNCHANGED <<opts, pkg, env, pc, src_files, vcs_info, ar_files, warnings, stdout,
                   error, ret, tmp_file, pub_file, log, pkg_fingerprint, ws_fingerprint,
                   changes>>

\* Faulty is the set of invocations whose lock acquisition fails.
InitLock ==
    /\ \E resolves \in [Procs -> Resolves], faulty \in {{}, {1}} :
          /\ \A p \in Procs : Len(resolves[p]) <= MaxResolve
          /\ inv = [p \in Procs |->
                      [pc |-> "call", resolve |-> resolves[p], rest |-> resolves[p],
                       lock_fault |-> p \in faulty,
                       ok |-> TRUE, warn |-> <<>>, err |-> NoError]]
    /\ cache_lock = 0
    /\ opts = DefaultOpts
    /\ pkg = DefaultPkg
    /\ env = DefaultEnv
    /\ pc = "tar"
    /\ src_files = <<>>
    /\ vcs_info = <<>>
    /\ ar_files = <<>>
    /\ warnings = <<>>
    /\ stdout = <<>>
    /\ error = NoError
    /\ ret = "running"
    /\ tmp_file = Empty
    /\ pub_file = Absent
    /\ log = <<>>
    /\ pkg_fingerprint = <<>>
    /\ ws_fingerprint = <<>>
    /\ changes = NoReport

NextLock == \E p \in Procs : Acquire(p) \/ Query(p) \/ Return(p)

\* Every invocation is a running process: it takes its next step when it
\* can, and no invocation enters check_yanked twice.
SpecLock ==
    /\ InitLock
    /\ [][NextLock]_vars
    /\ \A p \in Procs : WF_vars(Acquire(p)) /\ WF_vars(Query(p)) /\ WF_vars(Return(p))

(***************************************************************************)
(* The claims.                                                             *)
(***************************************************************************)
\* build_ar_list has returned its list (package() is past line 102).
ListBuilt ==
    /\ "build_ar_list" \in Range(log)
    /\ ~(ret = "Err" /\ Last(log) = "build_ar_list")

\* C1: the entry list build_ar_list returns holds no two entries with the
\* same relative path, whatever the candidate files and package flags.
C1_UniqueRelPaths ==
    ListBuilt =>
        \A i, j \in 1..Len(ar_files) : i # j => ar_files[i].rel_path # ar_files[j].rel_path

\* C2: the entry list build_ar_list returns is sorted ascending by relative
\* path, for every order of the candidate files and with the entries
\* appended after the loop.
C2_SortedByRelPath ==
    ListBuilt =>
        \A i, j \in 1..Len(ar_files) : i < j => ~PathLess(ar_files[j].rel_path, ar_files[i].rel_path)

\* C2's case: candidates listed in descending order, and a generated
\* Cargo.lock, a generated .cargo_vcs_info.json and a license file appended
\* after the loop yet placed before a candidate.
C2_Witness ==
    /\ ListBuilt
    /\ Len(src_files) = 2 /\ PathLess(src_files[2], src_files[1])
    /\ \E i, j, k, m \in 1..Len(ar_files) :
          /\ ar_files[i].contents.kind = "Lockfile"
          /\ ar_files[j].contents.kind = "VcsInfo"
          /\ ar_files[k].contents = OnDisk(<<"repo", "LICENSE">>)
          /\ ar_files[m].contents = OnDisk(src_files[1])
          /\ j < i /\ i < k /\ k < m

\* The number of times e occurs in s.
Count(s, e) == Cardinality({i \in 1..Len(s) : s[i] = e})

SamePermutation(s, t) ==
    /\ Len(s) = Len(t)
    /\ \A e \in Range(s) \cup Range(t) : Count(s, e) = Count(t, e)

\* The list as it stands when build_ar_list reaches the license file
\* (line 235).
BeforeLicense ==
    AddGenerated(SrcLoop(src_files, <<>>, <<>>, env.nested_manifest).result, pkg.include_lockfile, vcs_info)

LicenseAbs == NormalizePath(<<>>, Root \o pkg.license_file[1])

\* The license file exists and lies outside the package root.
LicenseIsOutside ==
    /\ pkg.license_file # <<>>
    /\ env.license_exists
    /\ ~IsPrefix(Root, LicenseAbs)

OutsideWarnings == {i \in 1..Len(warnings) : warnings[i].kind = "license-file outside of the package"}

ChangedKeys(before, after) == {k \in DOMAIN before \cap DOMAIN after : before[k] # after[k]}

AddedKeys(before, after) == DOMAIN after \ DOMAIN before

RemovedKeys(before, after) == DOMAIN before \ DOMAIN after

\* The keys of S in ascending order.
Ascending(S) ==
    CHOOSE s \in [1..Cardinality(S) -> S] :
        /\ Range(s) = S
        /\ \A i, j \in 1..Len(s) : i < j => StrLess(s[i], s[j])

Block(label, S) == IF S = {} THEN <<>> ELSE <<label \o Join(Ascending(S), "\n\t")>>

\* C9: for fingerprints that differ, the report is the Changed, Added and
\* Removed partitions in that order, each sorted, an empty partition left
\* out, and at least one partition rendered.
C9_ReportPartitions ==
    pc = "reported" =>
        LET c == ChangedKeys(pkg_fingerprint, ws_fingerprint)
            a == AddedKeys(pkg_fingerprint, ws_fingerprint)
            r == RemovedKeys(pkg_fingerprint, ws_fingerprint)
        IN  /\ ~changes.panic
            /\ c \cup a \cup r # {}
            /\ changes.text = Join(Block("Changed: ", c) \o Block("Added: ", a) \o Block("Removed: ", r), "\n")
            /\ (pkg_fingerprint = ExampleBefore /\ ws_fingerprint = ExampleAfter)
                  => changes.text = "Changed: b\nAdded: c"

\* C9's case: before {a:1, b:2}, after {a:1, b:3, c:4} has been reported.
C9_Witness ==
    /\ pc = "reported"
    /\ pkg_fingerprint = ExampleBefore
    /\ ws_fingerprint = ExampleAfter
    /\ changes.text = "Changed: b\nAdded: c"

(***************************************************************************)
(* Claims about the stages of package().                                   *)
(***************************************************************************)
\* C3: the archive appears under its public name only by the final rename,
\* after it was written completely to the scratch file and, with verify
\* set, after the verification build succeeded with equal fingerprints; a
\* failed run leaves the file at the public name as it was.
C3_AtomicRename ==
    /\ pub_file # env.pub0 =>
          /\ pc = "done" /\ ret = "Ok(Some)" /\ Last(log) = "rename"
          /\ pub_file.sealed
          /\ pub_file.data = [i \in 1..Len(ar_files) |-> Member(ar_files[i])]
          /\ tmp_file = Absent
          /\ opts.verify => /\ "run_verify" \in Range(log)
                            /\ env.fault \notin {"unpack", "compile"}
                            /\ pkg_fingerprint = UnpackedFingerprint(pub_file.data)
                            /\ ws_fingerprint = pkg_fingerprint
    /\ ret = "Err" => pub_file = env.pub0
    /\ pc \in {"tar", "run_verify", "rename"} => pub_file = env.pub0

\* C3's case: a verified archive has replaced an earlier one.
C3_Witness ==
    /\ pc = "done" /\ ret = "Ok(Some)"
    /\ opts.verify /\ "run_verify" \in Range(log)
    /\ env.pub0 = Prior
    /\ pub_file # Prior /\ pub_file.sealed /\ Len(pub_file.data) >= 3

\* The characters the claim lists.
C4_Chars == {"/", "\\", "<", ">", ":", "\"", "|", "?", "*"}

HasBadName(files) == \E i \in 1..Len(files) : SpecialCharsOf(Last(files[i])) \cap C4_Chars # {}

\* C4: when a candidate's final component holds one of / \ < > : " | ? *,
\* package() fails before the scratch file is opened, truncated or
\* written, with and without allow-dirty.
C4_BadNameNoWrite ==
    (HasBadName(env.files) /\ src_files = env.files) =>
        /\ tmp_file = env.tmp0
        /\ pub_file = env.pub0
        /\ pc \in {"check_repo_state", "build_ar_list", "done"}
        /\ pc = "done" => ret = "Err"

\* C4's case: the name is refused although allow-dirty tolerates the dirty
\* repository, and a stale scratch file is left as it was.
C4_Witness ==
    /\ pc = "done" /\ ret = "Err"
    /\ error.kind = "special character" /\ error.c = ":"
    /\ opts.allow_dirty /\ env.repo.kind = "work"
    /\ env.tmp0 = Stale /\ tmp_file = Stale

\* The ids the registry reports yanked, in the order of the resolve.
RECURSIVE YankedIds(_)
YankedIds(ids) ==
    IF ids = <<>> THEN <<>>
    ELSE (IF Head(ids).has_source /\ Head(ids).yanked = "yes" THEN <<Head(ids).id>> ELSE <<>>)
         \o YankedIds(Tail(ids))

RECURSIVE YankedWarned(_)
YankedWarned(ws) ==
    IF ws = <<>> THEN <<>>
    ELSE (IF Head(ws).kind = "yanked" THEN <<Head(ws).id>> ELSE <<>>) \o YankedWarned(Tail(ws))

\* Every stage but the yanked check succeeds on these inputs.
OthersSucceed ==
    /\ ~opts.list
    /\ env.fault = "none"
    /\ opts.verify => env.build_rs = "none"
    /\ \A i \in 1..Len(env.resolve) : env.resolve[i].has_source => env.resolve[i].yanked # "err"
    /\ \A i \in 1..Len(pkg.dependencies) :
          LET dep == pkg.dependencies[i]
          IN  (dep.is_path /\ dep.is_transitive) => dep.specified_req
    /\ ~HasBadName(env.files)
    /\ \A i \in 1..Len(env.files) : Last(env.files[i]) # VCS_INFO_FILE
    /\ env.nested_manifest # "Err"
    /\ \/ opts.allow_dirty
       \/ env.repo.kind = "none"
       \/ /\ env.repo.head # <<>>
          /\ \A p \in DOMAIN env.repo.status : env.repo.status[p] = StatusOk(CURRENT)

\* tar has run to its end.
TarDone == "tar" \in Range(log) /\ ~(ret = "Err" /\ Last(log) = "tar")

\* C7: each dependency the registry reports yanked gets one warning naming
\* it, and no number of them makes package() fail: when every other stage
\* succeeds the run ends with the rename.
C7_YankedOnlyWarns ==
    /\ (pc = "done" /\ OthersSucceed) =>
          ret = "Ok(Some)" /\ Last(log) = "rename" /\ pub_file.sealed
    /\ (TarDone /\ pkg.include_lockfile) => YankedWarned(warnings) = YankedIds(env.resolve)

\* C7's case: two yanked dependencies, two warnings, and the archive is in
\* place.
C7_Witness ==
    /\ pc = "done" /\ ret = "Ok(Some)" /\ pub_file.sealed
    /\ pkg.include_lockfile
    /\ YankedWarned(warnings) = <<"r1", "r2">>

\* C10: nothing is written to the archive unless every transitive path
\* dependency has a version requirement; when the dependency check meets
\* one without, package() fails naming it, the scratch file not yet opened.
C10_PathDepsPinned ==
    LET unpinned == {i \in 1..Len(pkg.dependencies) :
                        LET dep == pkg.dependencies[i]
                        IN  dep.is_path /\ dep.is_transitive /\ ~dep.specified_req}
    IN  /\ (tmp_file # env.tmp0 \/ pub_file # env.pub0 \/ pc \in {"open_rw", "set_len", "tar", "run_verify", "rename"})
              => unpinned = {}
        /\ ("verify_dependencies" \in Range(log) /\ unpinned # {}) =>
              /\ pc = "done" /\ ret = "Err"
              /\ error.kind = "all path dependencies must have a version specified"
              /\ \E i \in unpinned : error.dependency = pkg.dependencies[i].name
              /\ tmp_file = env.tmp0

\* C10's case: a path dependency without a version follows a pinned one;
\* the run fails naming it and the stale scratch file is untouched.
C10_Witness ==
    /\ pc = "done" /\ ret = "Err"
    /\ Len(pkg.dependencies) = 2 /\ pkg.dependencies[1].name = "pinned"
    /\ error.kind = "all path dependencies must have a version specified"
    /\ error.dependency = "unpinned"
    /\ env.tmp0 = Stale /\ tmp_file = Stale

(***************************************************************************)
(* Claims about check_repo_state.                                          *)
(***************************************************************************)
ManifestStatus == StatusFile(env.repo, StripPrefix(ManifestPath, WorkDir).path)

\* The package lies in a repository that tracks its manifest.
ManifestTracked ==
    /\ env.repo.kind = "work"
    /\ ManifestStatus.ok
    /\ ManifestStatus.flags \cap {"IGNORED", "WT_NEW"} = {}

SubRepos == SortSubRepos(open_submodules(env.repo.submodules))

DirtySet(files) == {f \in Range(files) : IsDirty(env.repo, SubRepos, f)}

PrimaryStatus(f) == StatusFile(env.repo, StripPrefix(f, WorkDir).path)

DirtyError == ret = "Err" /\ error.kind = "files in the working directory contain changes"

\* C5: without allow-dirty, in a repository that tracks the manifest, the
\* repository check fails for uncommitted changes exactly when some
\* candidate is dirty (its one other failure being a repository whose HEAD
\* or submodules cannot be read), and the message lists every dirty
\* candidate and no clean one.
C5_DirtyListed ==
    ("check_repo_state" \in Range(log) /\ ManifestTracked) =>
        /\ DirtyError <=> DirtySet(src_files) # {}
        /\ DirtySet(src_files) # {} => pc = "done"
        /\ (ret = "Err" /\ Last(log) = "check_repo_state"
               /\ env.repo.head # <<>> /\ env.repo.submodules_ok) => DirtyError
        /\ DirtyError =>
              /\ Range(error.files) = {DirtyDisplay(f) : f \in DirtySet(src_files)}
              /\ Len(error.files) = Cardinality(DirtySet(src_files))
              /\ error.count = Cardinality(DirtySet(src_files))
        /\ \A f \in Range(src_files) :
              /\ PrimaryStatus(f) = StatusOk({"WT_MODIFIED"})
                    => DirtyError /\ DirtyDisplay(f) \in Range(error.files)
              /\ (DirtyError /\ PrimaryStatus(f) = StatusOk(CURRENT))
                    => DirtyDisplay(f) \notin Range(error.files)

\* C5's case: of two candidates one has uncommitted edits; the failure
\* lists that file and no other.
C5_Witness ==
    /\ DirtyError
    /\ ManifestTracked
    /\ Len(src_files) = 2
    /\ PrimaryStatus(src_files[1]) = StatusOk(CURRENT)
    /\ PrimaryStatus(src_files[2]) = StatusOk({"WT_MODIFIED"})
    /\ error.files = <<"lib.rs">>

\* C6: in a clean repository whose manifest is tracked, the entry list
\* holds a generated .cargo_vcs_info.json whose content is the JSON record
\* of the HEAD revision.
C6_VcsInfoWhenClean ==
    (ListBuilt /\ ManifestTracked /\ DirtySet(env.files) = {} /\ env.repo.head # <<>>) =>
        \E i \in 1..Len(ar_files) :
            /\ ar_files[i].rel_path = <<VCS_INFO_FILE>>
            /\ ar_files[i].contents = GeneratedVcsInfo(VcsInfoText(env.repo.head[1]))
            /\ ar_files[i].contents.text = "{\n  \"git\": {\n    \"sha1\": \"abc123\"\n  }\n}\n"

(***************************************************************************)
(* Claims about the order of the stages.                                   *)
(***************************************************************************)
\* The stages in the order package() calls them.
StageOrder ==
    << "check_metadata", "list_files", "check_repo_state", "build_ar_list",
       "verify_dependencies", "tar", "run_verify", "rename" >>

StageIndex(s) == CHOOSE i \in 1..Len(StageOrder) : StageOrder[i] = s

\* The stages run so far are in the order of StageOrder, none of them twice.
InStageOrder ==
    /\ Range(log) \subseteq Range(StageOrder)
    /\ \A i, j \in 1..Len(log) : i < j => StageIndex(log[i]) < StageIndex(log[j])

\* C11: the stages run in the order metadata check, file listing, VCS
\* check, entry-list build, dependency check, archive write, verification,
\* rename, none of them twice; once a stage has failed nothing more
\* happens, and the error package() returns is that first failure.
C11_StagesInOrder ==
    /\ [](/\ InStageOrder
          /\ ret = "Err" => pc = "done"
          /\ ret = "Err" <=> error # NoError
          /\ pc = "done" <=> ret # "running")
    /\ [][/\ ret = "Err" => UNCHANGED vars
          /\ log' = log \/ \E st \in Range(StageOrder) : log' = Append(log, st)
          /\ error' # error => (error = NoError /\ ret' = "Err" /\ pc' = "done")
          /\ ret' # ret => ret = "running"]_vars

\* C11's case: the verification build fails after seven stages have run;
\* the rename is never started and the build's error is returned.
C11_Witness ==
    /\ pc = "done" /\ ret = "Err" /\ error.kind = "compile"
    /\ log = << "check_metadata", "list_files", "check_repo_state", "build_ar_list",
                "verify_dependencies", "tar", "run_verify" >>
    /\ pub_file = env.pub0

(***************************************************************************)
(* Claims about concurrent invocations.                                    *)
(***************************************************************************)
\* The invocations querying yanked status.
Querying == {p \in Procs : inv[p].pc = "loop"}

\* C12: at most one invocation is inside check_yanked between the lock's
\* acquisition and the return; the lock is released on every exit, the
\* error return from is_yanked included; and an invocation waiting for the
\* lock eventually holds it.
C12_YankedSerialized ==
    /\ [](/\ Cardinality(Querying) <= 1
          /\ \A p \in Procs : inv[p].pc = "loop" <=> cache_lock = p
          /\ \A p \in Procs : inv[p].pc = "returned" => cache_lock # p
          /\ \A p \in Procs : (inv[p].pc = "returned" /\ ~inv[p].lock_fault) =>
                LET r == YankedLoop(inv[p].resolve, <<>>)
                IN  inv[p].ok = r.ok /\ inv[p].warn = r.warn /\ inv[p].err = r.err)
    /\ \A p \in Procs : (inv[p].pc = "call" /\ ~inv[p].lock_fault) ~> (cache_lock = p)

\* C12's case: one invocation has returned the error of is_yanked while
\* another was waiting, and the waiting one now holds the lock.
C12_Witness ==
    /\ inv[1].pc = "returned" /\ ~inv[1].ok /\ inv[1].err.kind = "is_yanked"
    /\ inv[2].pc = "loop" /\ cache_lock = 2
    /\ inv[1].warn # <<>>

(***************************************************************************)
(* Claims about list mode.                                                 *)
(***************************************************************************)
\* C13: with list-only set, once the entry list is built package() prints
\* the relative path of every entry in list order and returns Ok(None);
\* the scratch file is not opened, truncated or written, tar, build_lock,
\* run_verify and the rename are not run, and the files of the output
\* directory stay as they were.
C13_ListOnlyWritesNothing ==
    opts.list =>
        /\ tmp_file = env.tmp0
        /\ pub_file = env.pub0
        /\ Range(log) \cap {"verify_dependencies", "tar", "run_verify", "rename"} = {}
        /\ pc \notin {"verify_dependencies", "open_rw", "set_len", "tar", "run_verify", "rename"}
        /\ YankedWarned(warnings) = <<>>
        /\ pkg_fingerprint = <<>> /\ ws_fingerprint = <<>>
        /\ pc # "done" => stdout = <<>>
        /\ (ListBuilt /\ pc = "done") =>
              /\ ret = "Ok(None)" /\ error = NoError
              /\ stdout = [i \in 1..Len(ar_files) |-> RelStr(ar_files[i].rel_path)]
        /\ ret \in {"running", "Ok(None)", "Err"}
        /\ ret = "Ok(None)" => ListBuilt

\* C13's case: three entries are listed while a stale scratch file lies in
\* the output directory, which is left as it was.
C13_Witness ==
    /\ opts.list /\ pc = "done" /\ ret = "Ok(None)"
    /\ stdout = <<"Cargo.toml", "Cargo.toml.orig", "lib.rs">>
    /\ env.tmp0 = Stale /\ tmp_file = Stale

(***************************************************************************)
(* Claims about manifests among the candidates.                            *)
(***************************************************************************)
\* The candidate's path relative to the package root.
RelOf(f) == StripPrefix(f, Root).path

\* C14: every candidate named Cargo.toml, the package's own manifest or a
\* nested one that parses, has two entries in the list: its original bytes
\* on disk at <relative path>.orig and a generated manifest at <relative
\* path>.
C14_ManifestPaired ==
    ListBuilt =>
        \A k \in 1..Len(src_files) :
            LET f == src_files[k]
            IN  Last(f) = "Cargo.toml" =>
                    /\ \E i \in 1..Len(ar_files) :
                          /\ ar_files[i].rel_path = PathBufFrom(RelStr(RelOf(f)) \o ".orig")
                          /\ ar_files[i].contents = OnDisk(f)
                    /\ \E i \in 1..Len(ar_files) :
                          /\ ar_files[i].rel_path = RelOf(f)
                          /\ ar_files[i].contents = GeneratedManifest(f)

(***************************************************************************)
(* Claims about untracked and ignored files.                               *)
(***************************************************************************)
\* The repository check has failed.
RepoCheckFailed == ret = "Err" /\ Last(log) = "check_repo_state"

\* The manifest is not tracked in the enclosing repository: untracked
\* (WT_NEW), ignored, or unknown to status_file.
ManifestUntracked ==
    /\ env.repo.kind = "work"
    /\ \/ ~ManifestStatus.ok
       \/ ManifestStatus.flags \cap {"WT_NEW", "IGNORED"} # {}

\* C15: when a repository is found and the manifest is not tracked in it,
\* ignored or not, check_repo_state returns Ok(None): it does not fail and
\* no revision is recorded.
C15_UntrackedManifestClean ==
    ("check_repo_state" \in Range(log) /\ ManifestUntracked) =>
        /\ ~RepoCheckFailed
        /\ vcs_info = <<>>

\* git() has run the per-file check on the candidates.
GitRan ==
    /\ "check_repo_state" \in Range(log)
    /\ env.repo.kind = "work"
    /\ ManifestStatus.ok /\ ManifestStatus.flags \cap IGNORED = {}
    /\ env.repo.submodules_ok

\* The failure message counts f among the dirty files.
CountedDirty(f) == DirtyError /\ DirtyDisplay(f) \in Range(error.files)

\* Some sub-repository whose path contains f reports a status other than
\* current for it.
CoveringDirty(f) ==
    \E sub \in Range(open_submodules(env.repo.submodules)) :
        /\ IsPrefix(sub.workdir, f)
        /\ LET st == StatusFile(sub, StripPrefix(f, sub.workdir).path)
           IN  st.ok /\ st.flags # CURRENT

IsLock(f) == Last(f) = "Cargo.lock"

\* C16 as stated: a candidate that is untracked or ignored in the primary
\* repository is dirty exactly when a covering sub-repository reports it
\* not current; a candidate whose primary status is current is clean; and
\* Cargo.lock is dirty only if its status is neither ignored nor current.
C16_UntrackedFallsThrough ==
    (GitRan /\ ManifestTracked) =>
        \A f \in Range(src_files) :
            LET st == PrimaryStatus(f)
            IN  /\ (st.ok /\ st.flags = CURRENT) => ~CountedDirty(f)
                /\ (IsLock(f) /\ st.ok /\ CountedDirty(f)) => st.flags \notin {IGNORED, CURRENT}
                /\ (~IsLock(f) /\ st.ok /\ st.flags \cap {"WT_NEW", "IGNORED"} # {})
                      => (CountedDirty(f) <=> CoveringDirty(f))

\* C16, amended: a candidate the primary repository cannot report a status
\* for is dirty exactly when a covering sub-repository reports it not
\* current; a candidate whose primary status is current is clean; any
\* other reported status, untracked and ignored included, makes it dirty,
\* except that Cargo.lock is dirty only if its status is neither ignored
\* nor current.
C16_StatusErrFallsThrough ==
    GitRan =>
        \A f \in Range(src_files) :
            LET st == PrimaryStatus(f)
            IN  /\ (st.ok /\ st.flags = CURRENT) => ~CountedDirty(f)
                /\ (IsLock(f) /\ st.ok) => (CountedDirty(f) <=> st.flags \notin {IGNORED, CURRENT})
                /\ (~IsLock(f) /\ st.ok /\ st.flags # CURRENT) => CountedDirty(f)
                /\ ~st.ok => (CountedDirty(f) <=> CoveringDirty(f))

\* C16's case: a file inside a submodule that reports it modified is
\* dirty, an ignored Cargo.lock beside it is not.
C16_Witness ==
    /\ GitRan /\ DirtyError
    /\ src_files = <<Abs(<<"Cargo.lock">>), Abs(<<"x", "lib.rs">>)>>
    /\ PrimaryStatus(src_files[1]) = StatusOk(IGNORED)
    /\ ~PrimaryStatus(src_files[2]).ok /\ CoveringDirty(src_files[2])
    /\ error.files = <<"x/lib.rs">>

\* C17: when the dirtiness check fails, the files in the message are
\* paths relative to the package root, in sorted order, whatever the order
\* of the candidates.
C17_DirtySorted ==
    DirtyError =>
        /\ \A i \in 1..Len(error.files) :
              \E f \in Range(src_files) : error.files[i] = RelStr(RelOf(f))
        /\ \A i, j \in 1..Len(error.files) :
              i < j => StrLess(error.files[i], error.files[j])

====
